---- MODULE Spec2Model ----
(***************************************************************************)
(* Model of the trend-following backtester.                                *)
(*                                                                         *)
(*  - TrendFollowingStrategy (strategy.py): the per-bar callback next()    *)
(*    and the order callback notify_order(), driven by the backtest        *)
(*    engine, which loads a bar, delivers the order notifications of that  *)
(*    bar and then calls next().                                           *)
(*  - run_optimization / run_single_optimization (optimization.py) and     *)
(*    fetch_data (data_loader.py): the grid search on a pool of worker     *)
(*    processes that share the on-disk data cache.                         *)
(*  - the functions that turn a finished backtest into numbers, applied on *)
(*    their own: the parameter grid and the score (optimization.py),       *)
(*    analyze_performance and calculate_sharpe_ratio (analysis.py) and the *)
(*    net return of run_backtest_for_ticker (backtest.py).                 *)
(*  - fetch_data (data_loader.py) called in sequence on one cache file.    *)
(*                                                                         *)
(* Money and prices are integers counted in tenths of the currency unit    *)
(* (0.5 is 5); the strategy's float arithmetic is modelled by exact        *)
(* rational arithmetic on these integers.  A Python None is the empty      *)
(* sequence and a value v is <<v>>.                                        *)
(***************************************************************************)
EXTENDS Integers, Sequences, FiniteSets, TLC

None == <<>>
Some(v) == <<v>>
Val(x) == x[1]

(***************************************************************************)
(* Bounds of the model.                                                    *)
(***************************************************************************)
\* bars stop arriving once this many fills were counted
MaxTrades == 3
\* the engine stops loading bars when this many orders are live at the broker
MaxOutstanding == 2
\* scripted run: the bullish crossover is on one of the bars 1..MaxLead
MaxLead == 2
\* scripted run: bars between the bullish and the bearish crossover
CrossGap == 10
\* scripted run: bars after the bearish crossover
RunTail == 2
\* sweep: processes of the worker pool, max(cpu_count() // 2, 1)
NumProcesses == 2

(***************************************************************************)
(* Inputs the engine can feed: closes and fill prices, smoothed ATR values *)
(* (multiples of 0.5 so that ATR * 2.2 is exact), broker equity, and the   *)
(* min_stop_loss parameter the strategy is constructed with.               *)
(***************************************************************************)
Closes == {985, 990, 1000, 1010}
Atrs == {0, 5}
PortfolioValues == {0, 170, 500}
Crossovers == {-1, 0, 1}
Statuses == {"Submitted", "Accepted", "Completed", "Canceled", "Margin", "Rejected"}

(***************************************************************************)
(* Strategy parameters (strategy.py, params).                              *)
(***************************************************************************)
\* risk_per_trade = 0.03 = RiskNum / RiskDen
RiskNum == 3
RiskDen == 100
\* trailing_stop_multiplier = 2.2 = MultNum / MultDen
MultNum == 22
MultDen == 10
\* min_stop_loss = 0.5, in tenths
DefaultMinStop == 5
\* commission = 0.001 = CommNum / CommDen
CommNum == 1
CommDen == 1000
\* min_stop_loss values a strategy is constructed with: no minimum, the default
MinStops == {0, DefaultMinStop}

VARIABLES
    min_stop_loss,   \* params.min_stop_loss of this strategy instance
    pc,              \* "idle": next() has run for the loaded bar; "bar": a bar is loaded
    close,           \* data.close[0]
    crossover,       \* crossover[0]
    smoothed_atr,    \* smoothed_atr[0]
    order,           \* self.order: None or <<[side, size]>>
    entry_price,     \* self.entry_price
    current_stop,    \* self.current_stop
    trade_count,     \* self.trade_count
    position,        \* self.position.size, kept by the broker
    broker_orders,   \* the orders live at the broker: [side, size, status]
    size,            \* next(): the local size of the loaded bar, None when not computed
    portfolio_value, \* next(): the local portfolio_value of the loaded bar
    log,             \* the messages logged by the last callback
    error,           \* "none", or the exception that ended the run
    fills,           \* history: the sides of the completed fills, in order
    track,           \* history: the closes next() has seen since the entry fill
    run,             \* scripted run: bar number, bar of the bullish crossover
    sw_pc,           \* run_optimization: "off", "map", "done" or "raised"
    dates_valid,     \* whether start_date and end_date parse
    cache,           \* the cache file of the sweep's ticker and date range
    tasks,           \* per grid point: state of its run_single_optimization call
    best,            \* run_optimization: the value returned
    csv,             \* the rows written to the results file, header first
    finished,        \* history: the grid points in the order their calls ended
    call,            \* a function applied on its own: its name and arguments
    ret,             \* what that function returned, None before it has
    cache_file       \* fetch_data called in sequence: the file at cache_path

stratVars == <<min_stop_loss, pc, close, crossover, smoothed_atr, order, entry_price,
               current_stop, trade_count, position, broker_orders, size,
               portfolio_value, log, error, fills, track>>
sweepVars == <<sw_pc, dates_valid, cache, tasks, best, csv, finished>>
calcVars == <<call, ret, cache_file>>
vars == <<stratVars, run, sweepVars, calcVars>>

Max(a, b) == IF a >= b THEN a ELSE b
Min(a, b) == IF a <= b THEN a ELSE b

\* Python's int(n / d) for d # 0: the quotient truncated toward zero
Trunc(n, d) ==
    LET an == IF n >= 0 THEN n ELSE -n
        ad == IF d >= 0 THEN d ELSE -d
        q == an \div ad
    IN IF (n >= 0) = (d >= 0) THEN q ELSE -q

\* smoothed_atr[0] * params.trailing_stop_multiplier
AtrTimesMult(atr) == (atr * MultNum) \div MultDen

\* max(smoothed_atr[0] * trailing_stop_multiplier, min_stop_loss)
StopLossDistance(atr, ms) == Max(AtrTimesMult(atr), ms)

\* a sizing that forgets the commission factor
PositionSize_NoCommission(pv, dist) == Trunc(pv * RiskNum, RiskDen * dist)

\* int(risk_amount / (stop_loss_distance * (1 + commission))), with
\* risk_amount = portfolio_value * risk_per_trade; dist # 0
PositionSize(pv, dist) ==
    Trunc(pv * RiskNum * CommDen, RiskDen * dist * (CommDen + CommNum))

\* a candidate stop placed above the close
NewStop_Plus(c, atr) == c + AtrTimesMult(atr)

\* new_stop = close - smoothed_atr * trailing_stop_multiplier
NewStop(c, atr) == c - AtrTimesMult(atr)

\* an update that follows the price down as well as up
UpdatedStop_AlwaysNew(stop, entry, c, atr, ms) ==
    IF stop = None
    THEN Some(Val(entry) - StopLossDistance(atr, ms))
    ELSE Some(c - AtrTimesMult(atr))

\* the trailing stop after the update of next(); stop and entry are None or <<v>>
UpdatedStop(stop, entry, c, atr, ms) ==
    IF stop = None
    THEN Some(Val(entry) - StopLossDistance(atr, ms))
    ELSE IF NewStop(c, atr) > Val(stop) THEN Some(NewStop(c, atr)) ELSE stop

\* a trigger that also fires when the close equals the stop
IsTriggered_NonStrict(c, stop) == c <= Val(stop)

\* close < current_stop
IsTriggered(c, stop) == c < Val(stop)

\* a notify_order that forgets the order on every notification
OrderAfterNotify_ClearAlways(ord, st) == None

\* a callback that clears the pending order on a fill only
OrderAfterNotify_KeepRefused(ord, st) == IF st = "Completed" THEN None ELSE ord

\* self.order after notify_order(order) with the given status
OrderAfterNotify(ord, st) ==
    IF st \in {"Submitted", "Accepted"} THEN ord ELSE None

\* a submission that records the order before the call that raises
OrderAfterSubmit_KeepOnRaise(ord, req, raises) == Some(req)

\* self.order after a buy()/sell() call inside try/except
OrderAfterSubmit(ord, req, raises) == IF raises THEN ord ELSE Some(req)

(***************************************************************************)
(* History of the closes seen by next() since the entry fill: n bars seen  *)
(* (saturating at 2), the previous close, whether the closes were strictly *)
(* increasing, and whether the first of them was at least the initial stop.*)
(***************************************************************************)
FreshTrack == [n |-> 0, prev |-> 0, rising |-> TRUE, first_ok |-> TRUE]
BrokenTrack == [n |-> 2, prev |-> 0, rising |-> FALSE, first_ok |-> FALSE]
TrackBar(t, c, stop) ==
    LET r == t.rising /\ (t.n = 0 \/ c > t.prev)
        f == IF t.n = 0 THEN (stop = None \/ c >= Val(stop)) ELSE t.first_ok
    IN IF r THEN [n |-> Min(t.n + 1, 2), prev |-> c, rising |-> TRUE, first_ok |-> f]
       ELSE BrokenTrack

NoRun == [bar_no |-> 0, bull_bar |-> 0, sized |-> FALSE]

StratInit ==
    /\ min_stop_loss \in MinStops
    /\ pc = "idle"
    /\ close = 0
    /\ crossover = 0
    /\ smoothed_atr = 0
    /\ order = None
    /\ entry_price = None
    /\ current_stop = None
    /\ trade_count = 0
    /\ position = 0
    /\ broker_orders = <<>>
    /\ size = None
    /\ portfolio_value = None
    /\ log = <<>>
    /\ error = "none"
    /\ fills = <<>>
    /\ track = FreshTrack

\* the engine loads the next bar and its indicator values
AdvanceBar(c, x, a) ==
    /\ pc = "idle"
    /\ error = "none"
    /\ trade_count < MaxTrades
    /\ Len(broker_orders) < MaxOutstanding
    /\ pc' = "bar"
    /\ close' = c
    /\ crossover' = x
    /\ smoothed_atr' = a
    /\ size' = None
    /\ portfolio_value' = None
    /\ UNCHANGED <<min_stop_loss, order, entry_price, current_stop, trade_count,
                   position, broker_orders, log, error, fills, track>>

\* the broker may send status st for an order in status cur
StatusAllowed(cur, st) ==
    CASE st = "Submitted" -> cur = "Created"
      [] st = "Accepted" -> cur = "Submitted"
      [] st \in {"Completed", "Margin"} -> cur = "Accepted"
      [] OTHER -> TRUE

RemoveAt(s, i) == [k \in 1..(Len(s) - 1) |-> IF k < i THEN s[k] ELSE s[k + 1]]

\* a notify_order that closes the books on a sell that was not filled
NotifyOutcome_ResetOnCancel(o, st, px) ==
    IF st \in {"Submitted", "Accepted"}
    THEN [entry_price |-> entry_price, current_stop |-> current_stop,
          trade_count |-> trade_count, log |-> <<>>]
    ELSE IF st = "Completed" /\ o.side = "buy"
    THEN [entry_price |-> Some(px),
          current_stop |-> Some(px - StopLossDistance(smoothed_atr, min_stop_loss)),
          trade_count |-> trade_count + 1, log |-> <<"buy_executed">>]
    ELSE IF st = "Completed"
    THEN [entry_price |-> None, current_stop |-> None,
          trade_count |-> trade_count + 1, log |-> <<"sell_executed">>]
    ELSE [entry_price |-> IF o.side = "sell" THEN None ELSE entry_price,
          current_stop |-> IF o.side = "sell" THEN None ELSE current_stop,
          trade_count |-> trade_count,
          log |-> <<"order_canceled">>]

\* a callback that counts round trips: only the completed sells
NotifyOutcome_CountRoundTrips(o, st, px) ==
    IF st \in {"Submitted", "Accepted"}
    THEN [entry_price |-> entry_price, current_stop |-> current_stop,
          trade_count |-> trade_count, log |-> <<>>]
    ELSE IF st = "Completed" /\ o.side = "buy"
    THEN [entry_price |-> Some(px),
          current_stop |-> Some(px - StopLossDistance(smoothed_atr, min_stop_loss)),
          trade_count |-> trade_count, log |-> <<"buy_executed">>]
    ELSE IF st = "Completed"
    THEN [entry_price |-> None, current_stop |-> None,
          trade_count |-> trade_count + 1, log |-> <<"sell_executed">>]
    ELSE [entry_price |-> entry_price, current_stop |-> current_stop,
          trade_count |-> trade_count,
          log |-> IF st \in {"Canceled", "Margin", "Rejected"}
                  THEN <<"order_canceled">> ELSE <<>>]

\* a callback that leaves the first stop to the next call of next()
NotifyOutcome_StopLeftToNext(o, st, px) ==
    IF st \in {"Submitted", "Accepted"}
    THEN [entry_price |-> entry_price, current_stop |-> current_stop,
          trade_count |-> trade_count, log |-> <<>>]
    ELSE IF st = "Completed" /\ o.side = "buy"
    THEN [entry_price |-> Some(px), current_stop |-> current_stop,
          trade_count |-> trade_count + 1, log |-> <<"buy_executed">>]
    ELSE IF st = "Completed"
    THEN [entry_price |-> None, current_stop |-> None,
          trade_count |-> trade_count + 1, log |-> <<"sell_executed">>]
    ELSE [entry_price |-> entry_price, current_stop |-> current_stop,
          trade_count |-> trade_count,
          log |-> IF st \in {"Canceled", "Margin", "Rejected"}
                  THEN <<"order_canceled">> ELSE <<>>]

\* notify_order(order): the strategy fields it leaves, for an order o with
\* order.status = st and order.executed.price = px
NotifyOutcome(o, st, px) ==
    IF st \in {"Submitted", "Accepted"}
    THEN [entry_price |-> entry_price, current_stop |-> current_stop,
          trade_count |-> trade_count, log |-> <<>>]
    ELSE IF st = "Completed" /\ o.side = "buy"
    THEN [entry_price |-> Some(px),
          current_stop |-> Some(px - StopLossDistance(smoothed_atr, min_stop_loss)),
          trade_count |-> trade_count + 1, log |-> <<"buy_executed">>]
    ELSE IF st = "Completed"
    THEN [entry_price |-> None, current_stop |-> None,
          trade_count |-> trade_count + 1, log |-> <<"sell_executed">>]
    ELSE [entry_price |-> entry_price, current_stop |-> current_stop,
          trade_count |-> trade_count,
          log |-> IF st \in {"Canceled", "Margin", "Rejected"}
                  THEN <<"order_canceled">> ELSE <<>>]

\* the broker's side of a notification for its i-th live order, and
\* notify_order(order) of the strategy
NotifyOrder(i, st, px) ==
    /\ pc = "bar"
    /\ error = "none"
    /\ i \in DOMAIN broker_orders
    /\ StatusAllowed(broker_orders[i].status, st)
    /\ LET o == broker_orders[i]
           out == NotifyOutcome(o, st, px)
       IN
       /\ broker_orders' = IF st \in {"Submitted", "Accepted"}
                           THEN [broker_orders EXCEPT ![i].status = st]
                           ELSE RemoveAt(broker_orders, i)
       /\ position' = IF st = "Completed"
                      THEN (IF o.side = "buy" THEN position + o.size ELSE position - o.size)
                      ELSE position
       /\ order' = OrderAfterNotify(order, st)
       /\ entry_price' = out.entry_price
       /\ current_stop' = out.current_stop
       /\ trade_count' = out.trade_count
       /\ log' = out.log
       /\ fills' = IF st = "Completed" THEN Append(fills, o.side) ELSE fills
       /\ track' = IF st = "Completed" /\ o.side = "buy" THEN FreshTrack ELSE track
    /\ UNCHANGED <<min_stop_loss, pc, close, crossover, smoothed_atr, size,
                   portfolio_value, error>>

(***************************************************************************)
(* next(): what one call leaves behind, given the equity the broker        *)
(* reports and whether buy()/sell() raises.  req is the order handed to    *)
(* the broker (None when no order was created).                            *)
(***************************************************************************)
Outcome(ord, req, stop, sz, pv, lg, err) ==
    [order |-> ord, req |-> req, current_stop |-> stop, size |-> sz,
     portfolio_value |-> pv, log |-> lg, error |-> err]

\* if not self.position, crossover[0] > 0
NextBuy(pv, raises) ==
    LET dist == StopLossDistance(smoothed_atr, min_stop_loss) IN
    IF dist = 0
    THEN Outcome(order, None, current_stop, None, Some(pv), <<"buy_signal">>,
                 "ZeroDivisionError")
    ELSE LET sz == PositionSize(pv, dist)
             req == [side |-> "buy", size |-> sz]
         IN IF sz <= 0
            THEN Outcome(order, None, current_stop, Some(sz), Some(pv),
                         <<"buy_signal", "size_le_0">>, "none")
            ELSE Outcome(OrderAfterSubmit(order, req, raises),
                         IF raises THEN None ELSE Some(req),
                         current_stop, Some(sz), Some(pv),
                         IF raises THEN <<"buy_signal", "size", "buy_error">>
                                   ELSE <<"buy_signal", "size">>,
                         "none")

\* a bearish crossover that sells nothing
NextSellSignal_Never(raises) ==
    Outcome(order, None, current_stop, None, None, <<"sell_signal">>, "none")

\* a bearish crossover that sells one share
NextSellSignal_OneShare(raises) ==
    LET req == [side |-> "sell", size |-> 1] IN
    Outcome(OrderAfterSubmit(order, req, raises),
            IF raises THEN None ELSE Some(req),
            current_stop, None, None,
            IF raises THEN <<"sell_signal", "sell_error">> ELSE <<"sell_signal">>,
            "none")

\* self.position, crossover[0] < 0
NextSellSignal(raises) ==
    LET req == [side |-> "sell", size |-> position] IN
    Outcome(OrderAfterSubmit(order, req, raises),
            IF raises THEN None ELSE Some(req),
            current_stop, None, None,
            IF raises THEN <<"sell_signal", "sell_error">> ELSE <<"sell_signal">>,
            "none")

\* self.position, no bearish crossover: trailing stop update and trigger
NextTrailingStop(raises) ==
    IF current_stop = None /\ entry_price = None
    THEN Outcome(order, None, current_stop, None, None, <<>>, "TypeError")
    ELSE
    LET stop == UpdatedStop(current_stop, entry_price, close, smoothed_atr, min_stop_loss)
        upd == IF current_stop # None /\ stop # current_stop
               THEN <<"stop_update">> ELSE <<>>
        req == [side |-> "sell", size |-> position]
    IN IF IsTriggered(close, stop)
       THEN Outcome(OrderAfterSubmit(order, req, raises),
                    IF raises THEN None ELSE Some(req),
                    stop, None, None,
                    upd \o (IF raises THEN <<"stop_triggered", "stop_sell_error">>
                                      ELSE <<"stop_triggered">>),
                    "none")
       ELSE Outcome(order, None, stop, None, None, upd, "none")

\* a next() that takes the entry branch on every bullish crossover
NextOutcome_AddsToPosition(pv, raises) ==
    IF order # None
    THEN Outcome(order, None, current_stop, None, None, <<>>, "none")
    ELSE IF crossover > 0
    THEN NextBuy(pv, raises)
    ELSE IF position = 0
    THEN Outcome(order, None, current_stop, None, None, <<>>, "none")
    ELSE IF crossover < 0
         THEN NextSellSignal(raises)
         ELSE NextTrailingStop(raises)

NextOutcome(pv, raises) ==
    IF order # None
    THEN Outcome(order, None, current_stop, None, None, <<>>, "none")
    ELSE IF position = 0
    THEN IF crossover > 0
         THEN NextBuy(pv, raises)
         ELSE Outcome(order, None, current_stop, None, None, <<>>, "none")
    ELSE IF crossover < 0
         THEN NextSellSignal(raises)
         ELSE NextTrailingStop(raises)

\* next() on the loaded bar
StratNext(pv, raises) ==
    /\ pc = "bar"
    /\ error = "none"
    /\ pc' = "idle"
    /\ LET out == NextOutcome(pv, raises) IN
       /\ order' = out.order
       /\ broker_orders' = IF out.req = None THEN broker_orders
                           ELSE Append(broker_orders,
                                       [side |-> Val(out.req).side,
                                        size |-> Val(out.req).size,
                                        status |-> "Created"])
       /\ current_stop' = out.current_stop
       /\ size' = out.size
       /\ portfolio_value' = out.portfolio_value
       /\ log' = out.log
       /\ error' = out.error
    /\ track' = IF position # 0 THEN TrackBar(track, close, current_stop) ELSE track
    /\ UNCHANGED <<min_stop_loss, close, crossover, smoothed_atr, entry_price,
                   trade_count, position, fills>>

(***************************************************************************)
(* The grid search.  Returns are whole percents; drawdowns are counted in  *)
(* tenths of a percent (0.5 is 5, the penalty 100 is 1000).  A score is    *)
(* the exact fraction num / den, den > 0.                                  *)
(***************************************************************************)
\* the candidate lists of run_optimization
FastCandidates == <<5, 7, 10, 12, 15, 20, 25, 30, 35, 50, 60, 75>>
SlowCandidates == <<15, 20, 25, 30, 40, 50, 60, 75, 100, 150, 200>>
\* the slices of them the modelled sweep runs on
FastSwept == <<12, 15>>
SlowSwept == <<15, 20>>
\* what a backtest can end with: total_return, and the realized max drawdown
TotalReturns == {-5, 0, 10}
Drawdowns == {0, 5, 300}
\* drawdown = 100, the value for "not available", in tenths
FailurePenalty == 1000
\* the analyzers run_single_optimization adds to its cerebro: none
SweepAnalyzers == {}

\* a comprehension that also keeps the pairs with slow = fast
Grid_NonStrict(fast, slow) ==
    LET n == Len(slow)
        all == [k \in 1..(Len(fast) * n) |->
                   <<fast[((k - 1) \div n) + 1], slow[((k - 1) % n) + 1]>>]
        Keep(p) == p[2] >= p[1]
    IN SelectSeq(all, Keep)

\* [(f, s) for f in fast for s in slow if s > f]
Grid(fast, slow) ==
    LET n == Len(slow)
        all == [k \in 1..(Len(fast) * n) |->
                   <<fast[((k - 1) \div n) + 1], slow[((k - 1) % n) + 1]>>]
        Keep(p) == p[2] > p[1]
    IN SelectSeq(all, Keep)

param_grid == Grid(FastSwept, SlowSwept)

\* a score that divides by the drawdown itself
Score_NoFloor(tr, dd) == [num |-> tr * 10, den |-> dd]

\* score = total_return / max(1, drawdown)
Score(tr, dd) == [num |-> tr * 10, den |-> Max(10, dd)]
ScoreLeq(a, b) == a.num * b.den <= b.num * a.den

\* results[0][0].analyzers.drawdown.get_analysis().max.drawdown, or 100
SweepDrawdown(realized) ==
    IF "drawdown" \in SweepAnalyzers THEN realized ELSE FailurePenalty

Label(g) == <<"fast_ma_period", g[1], "slow_ma_period", g[2]>>

\* the tuple returned when data_df is None or empty
Sentinel(g) ==
    [fast |-> g[1], slow |-> g[2], score |-> [num |-> 0, den |-> 1],
     total_return |-> 0, drawdown |-> FailurePenalty, label |-> <<"No data">>]

\* the tuple returned after a backtest
Evaluated(g, tr, realized) ==
    [fast |-> g[1], slow |-> g[2], score |-> Score(tr, SweepDrawdown(realized)),
     total_return |-> tr, drawdown |-> SweepDrawdown(realized), label |-> Label(g)]

\* run_single_optimization once fetch_data has returned df ("None", "empty" or "data")
SingleResult(g, df, tr, realized) ==
    IF df \in {"None", "empty"} THEN Sentinel(g) ELSE Evaluated(g, tr, realized)

(***************************************************************************)
(* fetch_data up to the download: what it met (unparsable dates, a cache   *)
(* file that is complete, one that another process is still writing, an    *)
(* empty download, a download with data), the exception it raises ("" for  *)
(* none) and the cache file it leaves.  A cache file older than cache_days *)
(* is removed first.  dl is what the download yields, "data" or "empty".   *)
(***************************************************************************)
FetchStart(valid, c, dl) ==
    IF ~valid THEN [met |-> "bad_dates", raised |-> "ValueError", cache |-> c]
    ELSE IF c = "fresh" THEN [met |-> "cached", raised |-> "", cache |-> c]
    ELSE IF c = "partial" THEN [met |-> "torn_cache", raised |-> "UnpicklingError", cache |-> c]
    ELSE IF dl = "empty"
    THEN [met |-> "empty_download", raised |-> "ValueError", cache |-> "none"]
    ELSE [met |-> "download", raised |-> "", cache |-> "none"]

\* no function is applied on its own
CalcOff ==
    /\ call = None
    /\ ret = None
    /\ cache_file = None

TodoTask == [st |-> "todo", fetch |-> "", exc |-> "", res |-> None, realized |-> None]

SweepOff ==
    /\ sw_pc = "off"
    /\ dates_valid = TRUE
    /\ cache = "none"
    /\ tasks = <<>>
    /\ best = None
    /\ csv = <<>>
    /\ finished = <<>>

\* run_optimization has built param_grid and handed it to pool.map
SweepInit ==
    /\ sw_pc = "map"
    /\ dates_valid \in BOOLEAN
    /\ cache \in {"none", "fresh", "expired"}
    /\ tasks = [k \in 1..Len(param_grid) |-> TodoTask]
    /\ best = None
    /\ csv = <<>>
    /\ finished = <<>>

Active(i) == tasks[i].st \in {"downloaded", "writing", "running"}
Finished(i) == tasks[i].st \in {"ok", "raised"}

\* a free worker takes the next grid point and runs fetch_data up to the download
StartTask(i, dl) ==
    /\ sw_pc = "map"
    /\ i \in DOMAIN tasks
    /\ tasks[i].st = "todo"
    /\ \A j \in 1..(i - 1) : tasks[j].st # "todo"
    /\ Cardinality({j \in DOMAIN tasks : Active(j)}) < NumProcesses
    /\ LET f == FetchStart(dates_valid, cache, dl) IN
       /\ cache' = f.cache
       /\ tasks' = [tasks EXCEPT ![i] =
                      IF f.raised # ""
                      THEN [@ EXCEPT !.st = "raised", !.fetch = f.met, !.exc = f.raised]
                      ELSE IF f.met = "cached"
                      THEN [@ EXCEPT !.st = "running", !.fetch = f.met]
                      ELSE [@ EXCEPT !.st = "downloaded", !.fetch = f.met]]
       /\ finished' = IF f.raised # "" THEN Append(finished, i) ELSE finished
    /\ UNCHANGED <<sw_pc, dates_valid, best, csv>>

\* fetch_data: open(cache_path, "wb")
OpenCache(i) ==
    /\ sw_pc = "map"
    /\ i \in DOMAIN tasks
    /\ tasks[i].st = "downloaded"
    /\ cache' = "partial"
    /\ tasks' = [tasks EXCEPT ![i].st = "writing"]
    /\ UNCHANGED <<sw_pc, dates_valid, best, csv, finished>>

\* fetch_data: pickle.dump(data, f), close, return data
DumpCache(i) ==
    /\ sw_pc = "map"
    /\ i \in DOMAIN tasks
    /\ tasks[i].st = "writing"
    /\ cache' = IF \E j \in DOMAIN tasks : j # i /\ tasks[j].st = "writing"
                THEN "partial" ELSE "fresh"
    /\ tasks' = [tasks EXCEPT ![i].st = "running"]
    /\ UNCHANGED <<sw_pc, dates_valid, best, csv, finished>>

\* the rest of run_single_optimization: the backtest and its result tuple
FinishTask(i, tr, realized) ==
    /\ sw_pc = "map"
    /\ i \in DOMAIN tasks
    /\ tasks[i].st = "running"
    /\ tasks' = [tasks EXCEPT ![i] =
                   [@ EXCEPT !.st = "ok",
                             !.res = Some(SingleResult(param_grid[i], "data", tr, realized)),
                             !.realized = Some(realized)]]
    /\ finished' = Append(finished, i)
    /\ UNCHANGED <<sw_pc, dates_valid, cache, best, csv>>

\* a max() that keeps the last of several equal maxima
BestOf_Last(results) ==
    LET IsMax(i) == \A j \in DOMAIN results : results[j].score.num * results[i].score.den
                                                  <= results[i].score.num * results[j].score.den
        last == CHOOSE i \in DOMAIN results :
                    IsMax(i) /\ \A j \in (i + 1)..Len(results) : ~IsMax(j)
    IN results[last]

\* max(results, key=lambda x: x[2]): the first result no other one beats
BestOf(results) ==
    LET IsMax(i) == \A j \in DOMAIN results : ScoreLeq(results[j].score, results[i].score)
        first == CHOOSE i \in DOMAIN results :
                    IsMax(i) /\ \A j \in 1..(i - 1) : ~IsMax(j)
    IN results[first]

\* a map that hands the results back in the order the calls ended
Collected_ByCompletion == [k \in DOMAIN finished |-> Val(tasks[finished[k]].res)]

\* results = pool.map(run_single_optimization, param_grid): one result per
\* grid point, in the order of param_grid
Collected == [i \in DOMAIN tasks |-> Val(tasks[i].res)]

CsvHeader ==
    <<"fast_ma_period", "slow_ma_period", "score", "total_return", "drawdown",
      "params_tested">>

\* pool.map returns once every grid point is done: it re-raises a worker's
\* exception, or run_optimization picks the best result and writes the file
MapReturns ==
    /\ sw_pc = "map"
    /\ \A i \in DOMAIN tasks : Finished(i)
    /\ IF \E i \in DOMAIN tasks : tasks[i].st = "raised"
       THEN /\ sw_pc' = "raised"
            /\ UNCHANGED <<best, csv>>
       ELSE LET results == Collected IN
            /\ sw_pc' = "done"
            /\ best' = IF results = <<>> THEN None ELSE Some(BestOf(results))
            /\ csv' = <<CsvHeader>> \o results
    /\ UNCHANGED <<dates_valid, cache, tasks, finished>>

Start ==
    /\ \E i \in 1..Len(param_grid), dl \in {"data", "empty"} : StartTask(i, dl)
    /\ UNCHANGED <<stratVars, run, calcVars>>

Open ==
    /\ \E i \in 1..Len(param_grid) : OpenCache(i)
    /\ UNCHANGED <<stratVars, run, calcVars>>

Dump ==
    /\ \E i \in 1..Len(param_grid) : DumpCache(i)
    /\ UNCHANGED <<stratVars, run, calcVars>>

Finish ==
    /\ \E i \in 1..Len(param_grid), tr \in TotalReturns, dd \in Drawdowns :
          FinishTask(i, tr, dd)
    /\ UNCHANGED <<stratVars, run, calcVars>>

Return ==
    /\ MapReturns
    /\ UNCHANGED <<stratVars, run, calcVars>>

SweepNext == Start \/ Open \/ Dump \/ Finish \/ Return

SweepSpecInit ==
    /\ StratInit
    /\ min_stop_loss = DefaultMinStop
    /\ run = NoRun
    /\ SweepInit
    /\ CalcOff

SpecSweep == SweepSpecInit /\ [][SweepNext]_vars

(***************************************************************************)
(* Spec: the strategy under any engine: any bar, any notification the      *)
(* broker may send for a live order, any equity, submissions that may      *)
(* raise.                                                                  *)
(***************************************************************************)
Init ==
    /\ StratInit
    /\ run = NoRun
    /\ SweepOff
    /\ CalcOff

NewBar ==
    /\ \E c \in Closes, x \in Crossovers, a \in Atrs : AdvanceBar(c, x, a)
    /\ UNCHANGED <<run, sweepVars, calcVars>>

Notify ==
    /\ \E i \in 1..MaxOutstanding, st \in Statuses, px \in Closes : NotifyOrder(i, st, px)
    /\ UNCHANGED <<run, sweepVars, calcVars>>

NextCall ==
    /\ \E pv \in PortfolioValues, raises \in BOOLEAN : StratNext(pv, raises)
    /\ UNCHANGED <<run, sweepVars, calcVars>>

Next == NewBar \/ Notify \/ NextCall

Spec == Init /\ [][Next]_vars

(***************************************************************************)
(* SpecRun: one scripted run under the backtest broker.  The crossover is  *)
(* bullish on bar bull_bar, bearish CrossGap bars later and absent on      *)
(* every other bar; submissions do not raise; every order is completed     *)
(* (Submitted, Accepted, Completed) on the bar after its request, before   *)
(* next() is called for that bar.  Closes, ATR, fill prices and equity     *)
(* are free.                                                               *)
(***************************************************************************)
Script(n) ==
    IF n = run.bull_bar THEN 1
    ELSE IF n = run.bull_bar + CrossGap THEN -1
    ELSE 0

RunInit ==
    /\ StratInit
    /\ \E b \in 1..MaxLead : run = [bar_no |-> 0, bull_bar |-> b, sized |-> FALSE]
    /\ SweepOff
    /\ CalcOff

RunNewBar ==
    /\ run.bar_no < run.bull_bar + CrossGap + RunTail
    /\ \E c \in Closes, a \in Atrs : AdvanceBar(c, Script(run.bar_no + 1), a)
    /\ run' = [run EXCEPT !.bar_no = @ + 1]
    /\ UNCHANGED <<sweepVars, calcVars>>

RunNotify ==
    /\ \E i \in 1..MaxOutstanding, st \in {"Submitted", "Accepted", "Completed"},
          px \in Closes : NotifyOrder(i, st, px)
    /\ UNCHANGED <<run, sweepVars, calcVars>>

RunNextCall ==
    /\ broker_orders = <<>>
    /\ \E pv \in PortfolioValues : StratNext(pv, FALSE)
    /\ run' = [run EXCEPT !.sized = @ \/ (size' # None /\ Val(size') > 0)]
    /\ UNCHANGED <<sweepVars, calcVars>>

RunNext == RunNewBar \/ RunNotify \/ RunNextCall

SpecRun == RunInit /\ [][RunNext]_vars

(***************************************************************************)
(* The functions of the code applied on their own.  call holds the name of *)
(* the function and its arguments, ret what it returned.                   *)
(***************************************************************************)
\* the longest candidate lists a grid is built from
MaxFast == 3
MaxSlow == 2
FastValues == {5, 10, 15, 20}
SlowValues == {15, 20, 25}

\* the lists of at most n distinct members of S
Lists(S, n) ==
    {l \in UNION {[1..k -> S] : k \in 0..n} :
        \A i, j \in DOMAIN l : i # j => l[i] # l[j]}

\* the drawdowns a score is computed for, in tenths of a percent
ScoreDrawdowns == (0..12) \cup Drawdowns \cup {FailurePenalty}

GridCalls ==
    {[fn |-> "param_grid", fast |-> f, slow |-> sl] :
        f \in Lists(FastValues, MaxFast), sl \in Lists(SlowValues, MaxSlow)}

ScoreCalls ==
    {[fn |-> "score", total_return |-> tr, drawdown |-> dd] :
        tr \in TotalReturns, dd \in ScoreDrawdowns}

\* cerebro.broker.setcommission(commission=0.001) = BrokerCommNum / BrokerCommDen
BrokerCommNum == 1
BrokerCommDen == 1000
\* the 0.001 of the net return = NetCommNum / NetCommDen
NetCommNum == 1
NetCommDen == 1000

\* the starting cash and the final broker value of a backtest
Cashes == {300, 1000}
EndingValues == {0, 299, 301, 305, 1000, 1007}
\* the drawdown analysis handed over: None when it has no max.drawdown
DrawdownAnalyses == {None} \cup {Some(dd) : dd \in Drawdowns}

\* the integer nearest to n / d for d > 0, the even one of two equally near
RoundHalfEven(n, d) ==
    LET q == n \div d
        r == n - q * d
    IN IF 2 * r > d THEN q + 1
       ELSE IF 2 * r < d THEN q
       ELSE IF q % 2 = 0 THEN q ELSE q + 1

\* round(n / d, 2), in hundredths
Round2(n, d) == RoundHalfEven(n * 100, d)

\* an analyzer path that falls back on the penalty of the sweep
AnalysisDrawdown_Penalty(drawdown_analysis) ==
    IF drawdown_analysis = None THEN FailurePenalty ELSE Val(drawdown_analysis)

\* try: max_drawdown = drawdown_analysis.max.drawdown / except: max_drawdown = 0.0
AnalysisDrawdown(drawdown_analysis) ==
    IF drawdown_analysis = None THEN 0 ELSE Val(drawdown_analysis)

\* analyze_performance: the entries of performance_metrics for the total
\* return, the drawdown and the trades, the rounded ones in hundredths of a
\* percent (the Sharpe and t-test entries depend on the daily returns alone)
AnalyzePerformance(starting_value, ending_value, drawdown_analysis, trades) ==
    [total_return |-> Round2((ending_value - starting_value) * 100, starting_value),
     max_drawdown |-> Round2(AnalysisDrawdown(drawdown_analysis), 10),
     trade_count |-> trades]

\* a net return that charges one commission per round trip
NetReturn_PerRoundTrip(total_return, trades) ==
    RoundHalfEven(total_return * NetCommDen - (trades \div 2) * NetCommNum * 10000,
                  NetCommDen)

\* round(performance_metrics["Rendement Total (%)"] - trade_count * 0.001 * 100, 2),
\* from the reported total return in hundredths, in hundredths
NetReturn(total_return, trades) ==
    RoundHalfEven(total_return * NetCommDen - trades * NetCommNum * 10000, NetCommDen)

\* run_backtest_for_ticker from cerebro.run() on: the metrics it returns for
\* the final broker value, the drawdown the analyzer measured and the
\* strategy's trade_count
BacktestMetrics(cash, ending_value, drawdown, trades) ==
    LET m == AnalyzePerformance(cash, ending_value, Some(drawdown), trades) IN
    [total_return |-> m.total_return, max_drawdown |-> m.max_drawdown,
     trade_count |-> m.trade_count,
     net_return |-> NetReturn(m.total_return, trades)]

BacktestCalls ==
    {[fn |-> "run_backtest_for_ticker", cash |-> c, value |-> v, drawdown |-> dd,
      trade_count |-> n] :
        c \in Cashes, v \in EndingValues, dd \in Drawdowns, n \in 0..MaxTrades}

AnalyzeCalls ==
    {[fn |-> "analyze_performance", startingcash |-> c, value |-> v,
      drawdown_analysis |-> da, trade_count |-> n] :
        c \in Cashes, v \in EndingValues, da \in DrawdownAnalyses, n \in 0..MaxTrades}

\* run_single_optimization on a grid point whose data was fetched
SingleCalls ==
    {[fn |-> "run_single_optimization", point |-> param_grid[i],
      total_return |-> tr, realized |-> dd] :
        i \in DOMAIN param_grid, tr \in TotalReturns, dd \in Drawdowns}

(***************************************************************************)
(* numpy's float arithmetic on the daily returns: binary floating point    *)
(* with a significand of MantissaBits bits (53 in a float64) and rounding  *)
(* to nearest, ties to even.  A float is the integer it is a multiple of   *)
(* the unit by; the returns are 0 and the floats from Pow2(MantissaBits)   *)
(* up, so that every mean of at most MaxReturns of them is at least        *)
(* Pow2(MantissaBits - 1) or 0 and every sum is below Pow2(MaxExponent).   *)
(***************************************************************************)
MantissaBits == 3
\* the longest series of daily returns
MaxReturns == 3
MaxExponent == MantissaBits + MaxReturns + 4

RECURSIVE Pow2(_)
Pow2(n) == IF n = 0 THEN 1 ELSE 2 * Pow2(n - 1)

\* the float nearest to x / d, for x >= 0 and d > 0
FloatDiv(x, d) ==
    LET e == CHOOSE k \in 0..MaxExponent :
                 /\ x < d * Pow2(MantissaBits + k)
                 /\ k = 0 \/ x >= d * Pow2(MantissaBits + k - 1)
    IN RoundHalfEven(x, d * Pow2(e)) * Pow2(e)

\* np.add.reduce on fewer than 8 floats: one rounded addition after the other
RECURSIVE FloatSum(_, _)
FloatSum(xs, k) == IF k = 0 THEN 0 ELSE FloatDiv(FloatSum(xs, k - 1) + xs[k], 1)

\* np.mean: the rounded sum divided by the length
FloatMean(xs) == FloatDiv(FloatSum(xs, Len(xs)), Len(xs))

FloatValues == {0} \cup {m * Pow2(MantissaBits) :
                             m \in Pow2(MantissaBits - 1)..(Pow2(MantissaBits) - 1)}

(***************************************************************************)
(* calculate_sharpe_ratio.  np.std is sqrt(mean(abs(x - mean(x)) ** 2)),   *)
(* which is 0 exactly when every x[i] - mean(x) is 0 (a difference of two  *)
(* unequal floats is not 0), and nan for an empty array, which is not      *)
(* equal to 0.  The value returned is "0.0" from the guard, "nan", or      *)
(* "ratio": mean / std * sqrt(252) for the mean and the deviations given,  *)
(* a number that is 0 only when the mean is.                               *)
(***************************************************************************)
SharpeRatio(returns, risk_free_rate) ==
    LET excess_returns == [i \in DOMAIN returns |-> returns[i] - risk_free_rate]
        mean == FloatMean(excess_returns)
        deviations == [i \in DOMAIN returns |-> excess_returns[i] - mean]
    IN IF returns = <<>>
       THEN [value |-> "nan", mean |-> 0, deviations |-> <<>>]
       ELSE IF \A i \in DOMAIN deviations : deviations[i] = 0
       THEN [value |-> "0.0", mean |-> mean, deviations |-> deviations]
       ELSE [value |-> "ratio", mean |-> mean, deviations |-> deviations]

SharpeCalls ==
    {[fn |-> "calculate_sharpe_ratio", returns |-> r, risk_free_rate |-> 0] :
        r \in UNION {[1..k -> FloatValues] : k \in 0..MaxReturns}}

CalcInit ==
    /\ StratInit
    /\ min_stop_loss = DefaultMinStop
    /\ run = NoRun
    /\ SweepOff
    /\ ret = None
    /\ cache_file = None
    /\ \/ call \in GridCalls
       \/ call \in ScoreCalls
       \/ call \in AnalyzeCalls
       \/ call \in SingleCalls
       \/ call \in SharpeCalls
       \/ call \in BacktestCalls

Applies(fn) == call.fn = fn /\ ret = None

\* run_optimization: param_grid = [...]
CallGrid ==
    /\ Applies("param_grid")
    /\ ret' = Some(Grid(call.fast, call.slow))
    /\ UNCHANGED <<stratVars, run, sweepVars, call, cache_file>>

\* run_single_optimization: score = ...
CallScore ==
    /\ Applies("score")
    /\ ret' = Some(Score(call.total_return, call.drawdown))
    /\ UNCHANGED <<stratVars, run, sweepVars, call, cache_file>>

CallAnalyze ==
    /\ Applies("analyze_performance")
    /\ ret' = Some(AnalyzePerformance(call.startingcash, call.value,
                                      call.drawdown_analysis, call.trade_count))
    /\ UNCHANGED <<stratVars, run, sweepVars, call, cache_file>>

CallSingle ==
    /\ Applies("run_single_optimization")
    /\ ret' = Some(SingleResult(call.point, "data", call.total_return, call.realized))
    /\ UNCHANGED <<stratVars, run, sweepVars, call, cache_file>>

CallSharpe ==
    /\ Applies("calculate_sharpe_ratio")
    /\ ret' = Some(SharpeRatio(call.returns, call.risk_free_rate))
    /\ UNCHANGED <<stratVars, run, sweepVars, call, cache_file>>

CallBacktest ==
    /\ Applies("run_backtest_for_ticker")
    /\ ret' = Some(BacktestMetrics(call.cash, call.value, call.drawdown,
                                   call.trade_count))
    /\ UNCHANGED <<stratVars, run, sweepVars, call, cache_file>>

CalcNext ==
    CallGrid \/ CallScore \/ CallAnalyze \/ CallSingle \/ CallSharpe \/ CallBacktest

SpecCalc == CalcInit /\ [][CalcNext]_vars

Returned(fn) == call.fn = fn /\ ret # None

(***************************************************************************)
(* fetch_data called again and again, one call after the other, for one    *)
(* ticker and date range.  cache_file is None or <<[data, age]>>: the data *)
(* pickled in the file and the days since it was written.  call holds the  *)
(* arguments of the last call and its number, ret what that call did.      *)
(***************************************************************************)
\* the calls of one run, and the age up to which a file is followed
MaxCalls == 3
MaxAge == 3
\* the frames a download and its formatting can yield
Frames == {"frame_a", "frame_b"}
\* what yf.download can come back with: a frame, nothing, or columns missing
Downloads == Frames \cup {"empty", "incomplete"}
CacheDays == {1, 2}

\* a test that trusts every cache file it finds
CacheUsable_AnyAge(file, force_refresh, cache_days) ==
    file # None /\ ~force_refresh

\* the file exists after the force_refresh removal and
\* cache_age <= cache_days * 86400
CacheUsable(file, force_refresh, cache_days) ==
    file # None /\ ~force_refresh /\ Val(file).age <= cache_days

\* one call of fetch_data: what it did and the file it leaves
FetchData(file, valid, force_refresh, cache_days, dl) ==
    IF ~valid
    THEN [outcome |-> "ValueError", data |-> "", downloaded |-> FALSE,
          removed |-> FALSE, file |-> file]
    ELSE IF CacheUsable(file, force_refresh, cache_days)
    THEN [outcome |-> "returned", data |-> Val(file).data, downloaded |-> FALSE,
          removed |-> FALSE, file |-> file]
    ELSE IF dl \in Frames
    THEN [outcome |-> "returned", data |-> dl, downloaded |-> TRUE,
          removed |-> file # None, file |-> Some([data |-> dl, age |-> 0])]
    ELSE [outcome |-> "ValueError", data |-> "", downloaded |-> TRUE,
          removed |-> file # None, file |-> None]

NoCall ==
    [fn |-> "fetch_data", no |-> 0, dates_valid |-> TRUE, force_refresh |-> FALSE,
     cache_days |-> 1, download |-> "empty"]

FetchInit ==
    /\ StratInit
    /\ min_stop_loss = DefaultMinStop
    /\ run = NoRun
    /\ SweepOff
    /\ call = NoCall
    /\ ret = None
    /\ cache_file = None

\* fetch_data(ticker, start_date, end_date, force_refresh, cache_days)
Fetch ==
    /\ call.no < MaxCalls
    /\ \E valid \in BOOLEAN, force \in BOOLEAN, days \in CacheDays, dl \in Downloads :
          LET out == FetchData(cache_file, valid, force, days, dl) IN
          /\ call' = [fn |-> "fetch_data", no |-> call.no + 1, dates_valid |-> valid,
                      force_refresh |-> force, cache_days |-> days,
                      download |-> IF out.downloaded THEN dl ELSE "none"]
          /\ ret' = Some([outcome |-> out.outcome, data |-> out.data,
                          downloaded |-> out.downloaded, removed |-> out.removed])
          /\ cache_file' = out.file
    /\ UNCHANGED <<stratVars, run, sweepVars>>

\* a day passes between two calls
DayPasses ==
    /\ cache_file # None
    /\ Val(cache_file).age < MaxAge
    /\ cache_file' = Some([Val(cache_file) EXCEPT !.age = @ + 1])
    /\ UNCHANGED <<stratVars, run, sweepVars, call, ret>>

FetchNext == Fetch \/ DayPasses

SpecFetch == FetchInit /\ [][FetchNext]_vars

(***************************************************************************)
(* The states of the strategy engine.                                      *)
(***************************************************************************)
PendingEntry == order # None /\ Val(order).side = "buy"
PendingExit == order # None /\ Val(order).side = "sell"
Flat == order = None /\ position = 0
Long == order = None /\ position # 0

LastLog == IF log = <<>> THEN "" ELSE log[Len(log)]
Logged(m) == \E k \in DOMAIN log : log[k] = m

(***************************************************************************)
(* C1: while a position is open the trailing stop never decreases: every   *)
(* step that leaves a stop in place leaves one at least as high.           *)
(***************************************************************************)
C1_StopNeverDecreases ==
    [][(current_stop # None /\ current_stop' # None /\ position # 0 /\ position' # 0)
         => Val(current_stop') >= Val(current_stop)]_vars

\* a bar on a falling price after the stop had been raised above the entry price
C1_Witness ==
    /\ Long
    /\ pc = "idle"
    /\ track.n = 2
    /\ ~track.rising
    /\ log = <<>>
    /\ Val(current_stop) > Val(entry_price)
    /\ NewStop(close, smoothed_atr) < Val(current_stop)

(***************************************************************************)
(* C2: at most one order is outstanding: the broker never holds more than  *)
(* one live order, the order it holds is the one the strategy is waiting   *)
(* for (so next() returns before any request), and the strategy is never   *)
(* waiting for an entry and an exit at once.                               *)
(***************************************************************************)
C2_OneOutstandingOrder ==
    /\ Len(broker_orders) <= 1
    /\ broker_orders # <<>> =>
          /\ order # None
          /\ Val(order).side = broker_orders[1].side
          /\ Val(order).size = broker_orders[1].size
    /\ ~(PendingEntry /\ PendingExit)

\* next() has run on a bullish bar while the accepted buy was still outstanding
C2_Witness ==
    /\ pc = "idle"
    /\ PendingEntry
    /\ Len(broker_orders) = 1
    /\ broker_orders[1].status = "Accepted"
    /\ crossover > 0
    /\ position = 0
    /\ log = <<>>

(***************************************************************************)
(* C3: a sell order that leaves the broker without a fill (canceled,       *)
(* margin, rejected) clears the pending order and leaves the position,     *)
(* entry price, trailing stop and trade_count as they were; next() on that *)
(* bar then applies the Long rules: on a bearish crossover or a close      *)
(* below the retained stop it submits a sell for the whole position.       *)
(***************************************************************************)
ExitRefusedStep ==
    /\ broker_orders # <<>>
    /\ broker_orders[1].side = "sell"
    /\ Len(broker_orders') < Len(broker_orders)
    /\ fills' = fills

SellSubmitted ==
    /\ Logged("sell_signal") \/ Logged("stop_triggered")
    /\ LastLog \in {"sell_error", "stop_sell_error"}
         \/ (PendingExit /\ Val(order).size = position /\ Len(broker_orders) = 1)

C3_ExitRefusedStaysLong ==
    [][/\ ExitRefusedStep =>
            /\ order' = None
            /\ position' = position
            /\ position' # 0
            /\ entry_price' = entry_price /\ entry_price' # None
            /\ current_stop' = current_stop /\ current_stop' # None
            /\ trade_count' = trade_count
            /\ log' = <<"order_canceled">>
       /\ (log = <<"order_canceled">> /\ position # 0 /\ pc = "bar" /\ pc' = "idle"
             /\ (crossover < 0 \/ (current_stop # None /\ close < Val(current_stop))))
            => SellSubmitted'
      ]_vars

\* the sell was refused on a bar that closes below the retained stop
C3_Witness ==
    /\ log = <<"order_canceled">>
    /\ Long
    /\ pc = "bar"
    /\ crossover = 0
    /\ close < Val(current_stop)
    /\ trade_count = 1

(***************************************************************************)
(* C6: a buy() or sell() that raises is logged and the bar leaves the      *)
(* engine as it found it: no pending order, nothing at the broker, entry   *)
(* price, trailing stop, trade_count and position unchanged.               *)
(***************************************************************************)
SubmitRaised == LastLog \in {"buy_error", "sell_error", "stop_sell_error"}

C6_RaisedSubmitLeavesState ==
    [][(pc = "bar" /\ pc' = "idle" /\ SubmitRaised') =>
          /\ order' = None
          /\ order' = order
          /\ broker_orders' = broker_orders
          /\ entry_price' = entry_price
          /\ current_stop' = current_stop
          /\ trade_count' = trade_count
          /\ position' = position
          /\ error' = "none"
      ]_vars

\* the trailing-stop sell raised
C6_Witness ==
    /\ pc = "idle"
    /\ LastLog = "stop_sell_error"
    /\ Long

(***************************************************************************)
(* C7: the size computed at a bullish entry signal is never negative; it   *)
(* is 0 exactly when risk_amount < stop_distance * (1 + commission), and   *)
(* then no buy is requested and the strategy stays Flat; otherwise it is   *)
(* floor(risk_amount / (stop_distance * (1 + commission))).  With          *)
(* N / D = risk_amount / (stop_distance * (1 + commission)), D > 0.        *)
(***************************************************************************)
SizingN == Val(portfolio_value) * RiskNum * CommDen * MultDen
SizingD == Max(smoothed_atr * MultNum, min_stop_loss * MultDen)
             * (CommDen + CommNum) * RiskDen

C7_SizeIsFloor ==
    size # None =>
        LET s == Val(size) IN
        /\ s >= 0
        /\ (s = 0) <=> (SizingN < SizingD)
        /\ s * SizingD <= SizingN
        /\ SizingN < (s + 1) * SizingD
        /\ s = 0 => (Flat /\ broker_orders = <<>>)
        /\ (s > 0 /\ ~SubmitRaised) =>
              (PendingEntry /\ Val(order).size = s /\ Len(broker_orders) = 1)

\* a positive risk amount that is too small for one share
C7_Witness ==
    /\ size = Some(0)
    /\ Val(portfolio_value) > 0
    /\ Flat

(***************************************************************************)
(* C8 (as claimed): at a bullish entry signal with a stop distance that is *)
(* zero or negative the size is 0, no trade is placed and no error is      *)
(* raised.                                                                 *)
(***************************************************************************)
C8_ZeroDistanceGuarded ==
    (pc = "idle" /\ portfolio_value # None
       /\ Max(smoothed_atr * MultNum, min_stop_loss * MultDen) <= 0)
      => (error = "none" /\ size = Some(0) /\ Flat)

(***************************************************************************)
(* C9 (as claimed): while the closes seen since the entry fill are         *)
(* strictly increasing no trailing-stop sell is submitted.                 *)
(***************************************************************************)
C9_RisingNeverStops == ~(Logged("stop_triggered") /\ track.rising)

(***************************************************************************)
(* C9 (amended): while the closes seen since the entry fill are strictly   *)
(* increasing and the first of them is not below the initial stop, no      *)
(* trailing-stop sell is submitted.                                        *)
(***************************************************************************)
C9_RisingFromStopNeverStops ==
    ~(Logged("stop_triggered") /\ track.rising /\ track.first_ok)

\* a second rising close, the first not below the initial stop, has moved the stop
C9_Witness ==
    /\ Long
    /\ pc = "idle"
    /\ track.rising /\ track.first_ok /\ track.n = 2
    /\ log = <<"stop_update">>

(***************************************************************************)
(* C10: a run with one bullish crossover, one bearish crossover CrossGap   *)
(* bars later, a positive size at entry and every order completed ends     *)
(* with exactly the fills buy, sell, trade_count 2 and the engine Flat.    *)
(***************************************************************************)
C10_OneRoundTrip ==
    (run.bar_no > run.bull_bar + CrossGap /\ pc = "idle" /\ run.sized
       /\ broker_orders = <<>>)
      => /\ fills = <<"buy", "sell">>
         /\ trade_count = 2
         /\ Flat
         /\ entry_price = None
         /\ current_stop = None

\* the sell requested on the bearish-crossover bar is filled on the next bar
C10_Witness ==
    /\ run.bar_no = run.bull_bar + CrossGap + 1
    /\ run.sized
    /\ log = <<"sell_executed">>
    /\ trade_count = 2
    /\ Flat

(***************************************************************************)
(* C4 (as claimed): a grid point whose download comes back empty gets the  *)
(* sentinel result (score 0, total_return 0, drawdown = the penalty), the  *)
(* sweep does not abort, and once it is over every grid point has its row. *)
(***************************************************************************)
C4_EmptyDataYieldsSentinel ==
    /\ \A i \in DOMAIN tasks :
          tasks[i].fetch = "empty_download" =>
             /\ tasks[i].st = "ok"
             /\ tasks[i].res = Some(Sentinel(param_grid[i]))
    /\ (\E i \in DOMAIN tasks : tasks[i].fetch = "empty_download") =>
          /\ sw_pc # "raised"
          /\ sw_pc = "done" => Len(csv) = Len(param_grid) + 1

(***************************************************************************)
(* C5 (as claimed): when the date range does not parse, every grid point   *)
(* that meets the failure is recorded as a sentinel result, and            *)
(* run_optimization completes: it returns a best result and writes one row *)
(* per grid point.                                                         *)
(***************************************************************************)
C5_BadDatesYieldSentinel ==
    /\ \A i \in DOMAIN tasks :
          tasks[i].fetch = "bad_dates" =>
             /\ tasks[i].st = "ok"
             /\ tasks[i].res = Some(Sentinel(param_grid[i]))
    /\ (sw_pc # "map" /\ ~dates_valid) =>
          /\ sw_pc = "done"
          /\ best # None
          /\ Len(csv) = Len(param_grid) + 1

(***************************************************************************)
(* C11: the best result run_optimization returns is one of the collected   *)
(* results, no collected result has a higher score, and every result that  *)
(* precedes it in grid order has a strictly lower score (of several        *)
(* results with the maximum score it is the first).                        *)
(***************************************************************************)
C11_BestIsFirstMaximum ==
    sw_pc = "done" =>
        /\ best # None
        /\ \E i \in DOMAIN tasks :
              /\ Val(tasks[i].res) = Val(best)
              /\ \A j \in DOMAIN tasks :
                    ScoreLeq(Val(tasks[j].res).score, Val(best).score)
              /\ \A j \in 1..(i - 1) :
                    ~ScoreLeq(Val(best).score, Val(tasks[j].res).score)

\* the second and the last grid point tie for the maximum; the second is returned
C11_Witness ==
    /\ sw_pc = "done"
    /\ Len(tasks) = 3
    /\ Val(tasks[1].res).total_return < Val(tasks[2].res).total_return
    /\ Val(tasks[3].res).total_return = Val(tasks[2].res).total_return
    /\ best = tasks[2].res

(***************************************************************************)
(* C12: whatever the order in which the workers end, the best result and   *)
(* the file exist only once every grid point has ended, they are produced  *)
(* by the one step in which pool.map returns, and the file then holds the  *)
(* header and exactly one row per grid point, row i being the result of    *)
(* the i-th point of param_grid.                                           *)
(***************************************************************************)
C12_AggregateAfterAllInGridOrder ==
    /\ (best # None \/ csv # <<>>) =>
          /\ sw_pc = "done"
          /\ \A i \in DOMAIN tasks : tasks[i].st = "ok"
          /\ Len(finished) = Len(param_grid)
    /\ sw_pc = "done" =>
          /\ Len(csv) = Len(param_grid) + 1
          /\ csv[1] = CsvHeader
          /\ \A i \in 1..Len(param_grid) :
                /\ csv[i + 1] = Val(tasks[i].res)
                /\ csv[i + 1].fast = param_grid[i][1]
                /\ csv[i + 1].slow = param_grid[i][2]

\* the file was written after the first grid point had ended last
C12_Witness ==
    /\ sw_pc = "done"
    /\ finished = <<2, 3, 1>>
    /\ Len(csv) = 4

(***************************************************************************)
(* C13: the grid built from two lists of distinct candidates holds exactly *)
(* the pairs (fast, slow) with slow > fast, each once, in the order of the *)
(* fast list and within one fast candidate in the order of the slow list;  *)
(* from <<5, 10, 20>> and <<15, 25>> it is (5,15), (5,25), (10,15),        *)
(* (10,25), (20,25), without (20,15).                                      *)
(***************************************************************************)
C13_GridIsOrderedStrictPairs ==
    Returned("param_grid") =>
        LET fast == call.fast
            slow == call.slow
            g == Val(ret)
            Pos(l, v) == CHOOSE i \in DOMAIN l : l[i] = v
        IN
        /\ \A k \in DOMAIN g :
              \E i \in DOMAIN fast, j \in DOMAIN slow :
                 g[k] = <<fast[i], slow[j]>> /\ slow[j] > fast[i]
        /\ \A i \in DOMAIN fast, j \in DOMAIN slow :
              slow[j] > fast[i] =>
                 Cardinality({k \in DOMAIN g : g[k] = <<fast[i], slow[j]>>}) = 1
        /\ \A k1, k2 \in DOMAIN g :
              k1 < k2 =>
                 \/ Pos(fast, g[k1][1]) < Pos(fast, g[k2][1])
                 \/ /\ g[k1][1] = g[k2][1]
                    /\ Pos(slow, g[k1][2]) < Pos(slow, g[k2][2])
        /\ (fast = <<5, 10, 20>> /\ slow = <<15, 25>>) =>
              g = <<(<<5, 15>>), (<<5, 25>>), (<<10, 15>>), (<<10, 25>>), (<<20, 25>>)>>

\* the grid of the candidates <<5, 10, 20>> and <<15, 25>> has been built
C13_Witness ==
    /\ Returned("param_grid")
    /\ call.fast = <<5, 10, 20>>
    /\ call.slow = <<15, 25>>
    /\ Len(Val(ret)) = 5

(***************************************************************************)
(* C14: the score is total_return / max(1, drawdown): its divisor is never *)
(* zero, for a drawdown of at most 1 (10 tenths) it equals the total       *)
(* return, which is the score at drawdown 1, and for a larger drawdown it  *)
(* is total_return / drawdown; score(10, 0) = score(10, 0.5).              *)
(***************************************************************************)
C14_ScoreFloorsDrawdownAtOne ==
    Returned("score") =>
        LET tr == call.total_return
            dd == call.drawdown
            sc == Val(ret)
        IN
        /\ sc.den # 0
        /\ dd <= 10 =>
              /\ sc.num = tr * sc.den
              /\ ScoreLeq(sc, Score(tr, 10)) /\ ScoreLeq(Score(tr, 10), sc)
        /\ dd >= 10 => sc.num * dd = tr * 10 * sc.den
        /\ (tr = 10 /\ dd = 0) => sc = Score(10, 5)

\* the score of total return 10 at drawdown 0
C14_Witness ==
    /\ Returned("score")
    /\ call.total_return = 10
    /\ call.drawdown = 0
    /\ Val(ret).num = 10 * Val(ret).den

(***************************************************************************)
(* C15: without a usable drawdown analysis analyze_performance reports a   *)
(* maximum drawdown of 0.0 and run_single_optimization reports a drawdown  *)
(* of 100 (the penalty); the two values differ, and neither function       *)
(* reports the other's.                                                    *)
(***************************************************************************)
C15_DrawdownDefaultsPerPath ==
    /\ (Returned("analyze_performance") /\ call.drawdown_analysis = None) =>
          /\ Val(ret).max_drawdown = 0
          /\ Val(ret).max_drawdown # FailurePenalty * 10
    /\ (Returned("run_single_optimization") /\ "drawdown" \notin SweepAnalyzers) =>
          /\ Val(ret).drawdown = 1000
          /\ Val(ret).drawdown # 0

\* analyze_performance has returned for a drawdown analysis without max.drawdown
C15_Witness ==
    /\ Returned("analyze_performance")
    /\ call.drawdown_analysis = None
    /\ Val(ret).total_return > 0

(***************************************************************************)
(* C16 (as claimed): for a series of daily returns that are all equal      *)
(* calculate_sharpe_ratio returns 0.0, not nan and not another number.     *)
(***************************************************************************)
C16_ConstantReturnsGiveZero ==
    (/\ Returned("calculate_sharpe_ratio")
     /\ call.returns # <<>>
     /\ \A i, j \in DOMAIN call.returns : call.returns[i] = call.returns[j])
      => \/ Val(ret).value = "0.0"
         \/ Val(ret).value = "ratio" /\ Val(ret).mean = 0

(***************************************************************************)
(* C17: a buy order that leaves the broker without a fill (canceled,       *)
(* margin, rejected) clears the pending order and leaves the strategy      *)
(* Flat: no position, no entry price, no trailing stop, trade_count as it  *)
(* was.  next() on a bullish bar then treats the signal as a fresh entry:  *)
(* it logs the signal and, when the size is positive and buy() does not    *)
(* raise, a new buy order is pending at the broker.                        *)
(***************************************************************************)
EntryRefusedStep ==
    /\ broker_orders # <<>>
    /\ broker_orders[1].side = "buy"
    /\ Len(broker_orders') < Len(broker_orders)
    /\ fills' = fills

C17_EntryRefusedReturnsFlat ==
    [][/\ EntryRefusedStep =>
            /\ order' = None
            /\ broker_orders' = <<>>
            /\ position' = 0
            /\ entry_price' = None
            /\ current_stop' = None
            /\ trade_count' = trade_count
            /\ log' = <<"order_canceled">>
       /\ (log = <<"order_canceled">> /\ position = 0 /\ pc = "bar" /\ pc' = "idle"
             /\ crossover > 0)
            => /\ Logged("buy_signal")'
               /\ (size' # None /\ Val(size') > 0 /\ LastLog' # "buy_error") =>
                     /\ order' = Some([side |-> "buy", size |-> Val(size')])
                     /\ broker_orders' =
                           <<[side |-> "buy", size |-> Val(size'), status |-> "Created"]>>
      ]_vars

\* the buy was refused on a bar with a bullish crossover
C17_Witness ==
    /\ log = <<"order_canceled">>
    /\ Flat
    /\ pc = "bar"
    /\ crossover > 0
    /\ broker_orders = <<>>
    /\ entry_price = None /\ current_stop = None

(***************************************************************************)
(* C18: the net return of a single run is the total return it reports      *)
(* minus trade_count * commission * 100, for the strategy's trade_count    *)
(* and the commission set on the broker; the reported total return is the  *)
(* exact one, (value - cash) / cash * 100, rounded to two decimals.        *)
(* Returns in hundredths of a percent.                                     *)
(***************************************************************************)
C18_NetReturnIsTotalMinusCommissions ==
    Returned("run_backtest_for_ticker") =>
        LET m == Val(ret)
            charge == call.trade_count * BrokerCommNum * 10000
            exact == (call.value - call.cash) * 10000
        IN
        /\ m.trade_count = call.trade_count
        /\ m.net_return * BrokerCommDen = m.total_return * BrokerCommDen - charge
        /\ 2 * (m.total_return * call.cash - exact) <= call.cash
        /\ 2 * (exact - m.total_return * call.cash) <= call.cash

\* three fills and a total return that is not a whole number of hundredths
C18_Witness ==
    /\ Returned("run_backtest_for_ticker")
    /\ call.trade_count = 3
    /\ call.cash = 300
    /\ call.value = 305
    /\ Val(ret).total_return = 167
    /\ Val(ret).net_return = 137

(***************************************************************************)
(* C19: trade_count is the number of completed fills notified so far: a    *)
(* notification of a completed buy or sell adds exactly one, and every     *)
(* other step (a submitted, accepted, canceled, margin or rejected         *)
(* notification, a new bar, next()) leaves it as it is.                    *)
(***************************************************************************)
C19_TradeCountCountsFills ==
    [][/\ trade_count = Len(fills)
       /\ trade_count' = Len(fills')
       /\ Len(fills') = Len(fills) + 1 => trade_count' = trade_count + 1
       /\ fills' = fills => trade_count' = trade_count
       /\ pc' # pc => trade_count' = trade_count
      ]_vars

\* an order was refused after a completed buy and a completed sell
C19_Witness ==
    /\ fills = <<"buy", "sell">>
    /\ trade_count = 2
    /\ log = <<"order_canceled">>

(***************************************************************************)
(* C20: entry_price and current_stop are both set while the position is    *)
(* open and both None while it is not.  The notification of a completed    *)
(* buy sets them together, the stop to entry_price - max(smoothed_atr *    *)
(* trailing_stop_multiplier, min_stop_loss), and only the notification of  *)
(* a completed sell clears either.                                         *)
(***************************************************************************)
StopExistsWithPosition ==
    /\ position # 0 => (entry_price # None /\ current_stop # None)
    /\ position = 0 => (entry_price = None /\ current_stop = None)

C20_StopAndEntryWhilePositionOpen ==
    [][/\ StopExistsWithPosition
       /\ StopExistsWithPosition'
       /\ fills' = Append(fills, "buy") =>
             /\ entry_price = None /\ current_stop = None
             /\ entry_price' # None /\ current_stop' # None
             /\ Val(current_stop') * MultDen =
                   Val(entry_price') * MultDen
                     - Max(smoothed_atr * MultNum, min_stop_loss * MultDen)
       /\ ((entry_price # None /\ entry_price' = None)
             \/ (current_stop # None /\ current_stop' = None)) =>
             /\ fills' = Append(fills, "sell")
             /\ entry_price' = None /\ current_stop' = None
      ]_vars

\* a refused sell has left the position open with its entry price and stop
C20_Witness ==
    /\ Long
    /\ log = <<"order_canceled">>
    /\ entry_price # None
    /\ current_stop # None
    /\ Val(current_stop) > Val(entry_price) - StopLossDistance(smoothed_atr, min_stop_loss)

(***************************************************************************)
(* C21: every sell order handed to the broker, after a bearish crossover   *)
(* or a triggered trailing stop, is for the whole position, so a completed *)
(* sell leaves no position; and next() on a bar with a bearish crossover   *)
(* while Long logs the sell signal and leaves current_stop as it was,      *)
(* without a stop update or a stop trigger.                                *)
(***************************************************************************)
SellHandedOver ==
    /\ Len(broker_orders') = Len(broker_orders) + 1
    /\ broker_orders'[Len(broker_orders')].side = "sell"

C21_SellsWholePosition ==
    [][/\ SellHandedOver =>
            /\ position > 0
            /\ broker_orders'[Len(broker_orders')].size = position
            /\ order' = Some([side |-> "sell", size |-> position])
       /\ fills' = Append(fills, "sell") => position' = 0
       /\ (pc = "bar" /\ pc' = "idle" /\ Long /\ crossover < 0) =>
            /\ current_stop' = current_stop
            /\ Logged("sell_signal")'
            /\ ~Logged("stop_update")' /\ ~Logged("stop_triggered")'
            /\ LastLog' # "sell_error" => SellHandedOver
      ]_vars

\* a bearish crossover has sold two shares on a bar that closed below the stop
C21_Witness ==
    /\ pc = "idle"
    /\ PendingExit
    /\ log = <<"sell_signal">>
    /\ position = 2
    /\ Val(order).size = 2
    /\ close < Val(current_stop)

(***************************************************************************)
(* C22: a buy order is handed to the broker only by next() in Flat on a    *)
(* bullish crossover and a sell order only by next() in Long; next() with  *)
(* a position open hands over no buy and next() without one hands over no  *)
(* sell; the completed fills alternate buy, sell, buy, ... from a buy.     *)
(***************************************************************************)
HandedOver(side) ==
    /\ Len(broker_orders') = Len(broker_orders) + 1
    /\ broker_orders'[Len(broker_orders')].side = side

Alternating(f) == \A k \in DOMAIN f : f[k] = IF k % 2 = 1 THEN "buy" ELSE "sell"

C22_BuyFromFlatSellFromLong ==
    [][/\ HandedOver("buy") => (Flat /\ crossover > 0 /\ pc = "bar")
       /\ HandedOver("sell") => (Long /\ pc = "bar")
       /\ (pc = "bar" /\ pc' = "idle" /\ position # 0) => ~HandedOver("buy")
       /\ (pc = "bar" /\ pc' = "idle" /\ position = 0) => ~HandedOver("sell")
       /\ Alternating(fills')
      ]_vars

\* next() has run on a bullish bar with the second position open
C22_Witness ==
    /\ pc = "idle"
    /\ Long
    /\ crossover > 0
    /\ fills = <<"buy", "sell", "buy">>
    /\ broker_orders = <<>>
    /\ ~Logged("buy_signal")

(***************************************************************************)
(* C23: next() submits a trailing-stop sell only when the close is below   *)
(* the stop as it stands after the update of that bar, so a close equal to *)
(* the stop submits none; and a call of next() that raises the stop (the   *)
(* multiple of the smoothed ATR not being negative) submits none either.   *)
(***************************************************************************)
C23_TriggerStrictAfterUpdate ==
    [][(pc = "bar" /\ pc' = "idle") =>
          /\ Logged("stop_triggered")' =>
                /\ current_stop' # None
                /\ close < Val(current_stop')
          /\ Logged("stop_update")' =>
                /\ Val(current_stop') > Val(current_stop)
                /\ ~Logged("stop_triggered")'
                /\ order' = None
      ]_vars

\* next() has raised the stop to the close of the bar and has not sold
C23_Witness ==
    /\ pc = "idle"
    /\ Long
    /\ log = <<"stop_update">>
    /\ close = Val(current_stop)
    /\ broker_orders = <<>>

(***************************************************************************)
(* C24 (as claimed): a grid point whose backtest ran on market data        *)
(* records the maximum drawdown that run realized and scores the total     *)
(* return against it; the penalty 100 is not recorded for such a point     *)
(* unless the run itself lost that much.                                   *)
(***************************************************************************)
C24_SweepRecordsRealizedDrawdown ==
    \A i \in DOMAIN tasks :
        (tasks[i].st = "ok" /\ tasks[i].fetch \in {"download", "cached"}) =>
            LET r == Val(tasks[i].res)
                dd == Val(tasks[i].realized)
            IN /\ r.drawdown = dd
               /\ r.score = [num |-> r.total_return * 10, den |-> Max(10, dd)]
               /\ r.drawdown = FailurePenalty => dd = FailurePenalty

(***************************************************************************)
(* C25: in any sequence of fetch_data calls for one ticker and date range: *)
(* a call that finds a file no older than cache_days, without              *)
(* force_refresh, returns the data in the file and does not download; a    *)
(* call that finds an older file, or any file with force_refresh, removes  *)
(* it and downloads; a download that succeeds leaves a file with the data  *)
(* returned; a download that comes back empty raises ValueError and leaves *)
(* no file.                                                                *)
(***************************************************************************)
C25_CacheFollowsCalls ==
    [][(call'.no # call.no /\ call'.dates_valid) =>
          LET r == Val(ret')
              found == cache_file # None
              young == found /\ Val(cache_file).age <= call'.cache_days
          IN
          /\ (young /\ ~call'.force_refresh) =>
                /\ r.outcome = "returned"
                /\ r.data = Val(cache_file).data
                /\ ~r.downloaded
                /\ cache_file' = cache_file
          /\ (found /\ (~young \/ call'.force_refresh)) =>
                /\ r.removed
                /\ r.downloaded
          /\ (r.downloaded /\ r.outcome = "returned") =>
                /\ r.data = call'.download
                /\ cache_file' = Some([data |-> r.data, age |-> 0])
          /\ (r.downloaded /\ call'.download = "empty") =>
                /\ r.outcome = "ValueError"
                /\ cache_file' = None
      ]_vars

\* a third call that found a file two days old, removed it and downloaded
\* a different frame
C25_Witness ==
    /\ call.no = 3
    /\ call.cache_days = 1
    /\ ~call.force_refresh
    /\ ret # None
    /\ Val(ret).removed
    /\ Val(ret).outcome = "returned"
    /\ cache_file = Some([data |-> "frame_b", age |-> 0])

====
